---- MODULE Spec2Model ----
(***************************************************************************)
(* State-machine model of the ARIA dataset ingestion scripts:              *)
(*   src/get_data.py              (variant "get_data")                     *)
(*   src/res/download_convert.py  (variant "download_convert")             *)
(* The retrying downloader (download_file), the per-sequence orchestrator  *)
(* (process_sequence) and the two drivers (main) are modelled step by      *)
(* step; the network, ffmpeg, the ZIP library and the disk are the         *)
(* environment, whose outcomes are chosen nondeterministically.            *)
(***************************************************************************)
EXTENDS Integers, Sequences, FiniteSets, TLC

\* ---------------------------------------------------------------- constants
MAX_RETRIES == 3
RETRY_DELAY == 5

\* Number of sequences in the registry file.
NumSeqs == 2

SeqIds == 1..NumSeqs

\* Python's None, as a value of the same kind as the strings it stands beside.
None == "None"

\* A path at which no file exists.
Absent == "absent"

\* What a downloaded file can hold: the asset the registry describes, or
\* anything else (a truncated body, a body the server corrupted).
Contents == {"good", "bad"}

\* hashlib.sha1(...).hexdigest() of a file's content: distinct contents have
\* distinct digests.
Sha1(content) ==
  CASE content = "good" -> "sha1:good"
    [] content = "bad" -> "sha1:bad"

\* Python truthiness of an optional string: None and "" are falsy.
Truthy(x) == x # None /\ x # ""

VARIABLES
  variant,        \* which script runs: "get_data" or "download_convert"
  registry_ok,    \* whether the registry JSON file loads
  registry,       \* data['sequences']: the entry of each sequence id
  max_download,   \* the --max_download argument (None or an integer)
  fs,             \* the dataset directory: per sequence, its files
  pc,             \* control position
  idx,            \* position of the driver's loop in sequence_items
  n_items,        \* len(sequence_items) after the cap was applied
  downloaded,     \* get_data.main's counter of successful sequences
  metadata_list,  \* download_convert.main's accumulator
  ps,             \* the running process_sequence invocation
  dl,             \* the running download_file invocation
  run,            \* what the run has done so far: log lines, outputs, exit code
  call            \* a function called on its own: its arguments and what it returned

vars == <<variant, registry_ok, registry, max_download, fs, pc, idx, n_items,
          downloaded, metadata_list, ps, dl, run, call>>

\* ---------------------------------------------------------------- filesystem
EmptyDir == [video |-> Absent, frames |-> FALSE, gt |-> Absent, ann |-> "empty"]

\* os.path.exists(path), given what is at the path.
\* (mutation: the existence check always answers "no")
path_exists_never(file) == FALSE
path_exists(file) == file # Absent

\* ---------------------------------------------------------------- download_file
\* verify_sha1: the digest of the file equals the expected one; any I/O
\* failure while reading (readable = FALSE) yields False.
\* (mutation: the digests are never compared)
verify_sha1_always(file, expected_sha1, readable) == TRUE
verify_sha1(file, expected_sha1, readable) ==
  readable /\ file # Absent /\ Sha1(file) = expected_sha1

\* for attempt in range(1, MAX_RETRIES + 1): the last value of the loop variable.
\* (mutation: the loop runs one value further)
LastAttempt_plus1 == MAX_RETRIES + 1
LastAttempt == MAX_RETRIES

\* What the environment does to one attempt:
\*   connect_error    requests.get or raise_for_status raises, nothing is opened
\*   stream_error     the body breaks off after open(dest_path, 'wb')
\*   body_good        the whole body is written and is the asset
\*   body_bad         the whole body is written and is not the asset
\*   body_unreadable  the asset is written, but cannot be read back by verify_sha1
AttemptOutcomes ==
  {"connect_error", "stream_error", "body_good", "body_bad", "body_unreadable"}

\* The environment has an outcome ready for every attempt the loop could make.
DownloadOutcomes == [1..(MAX_RETRIES + 1) -> AttemptOutcomes]

BodyOf(outcome) == IF outcome = "body_bad" THEN "bad" ELSE "good"

\* The delay the loop makes after a checksum mismatch: none (sleep is called
\* in the except branch only).
MismatchDelay == 0

\* What is at dest_path after a checksum mismatch: os.remove(dest_path).
AfterMismatch(file) == Absent

\* What is at dest_path after the except branch: what the attempt left there.
AfterError(file, outcome) == IF outcome = "stream_error" THEN "bad" ELSE file

\* The retry loop of download_file from the given value of attempt on.
\* file: what is at dest_path; hist: the attempts made so far, each with the
\* line it logged and the delay that followed it.
RECURSIVE download_file_from(_, _, _, _, _)
download_file_from(attempt, sha1sum, file, outcomes, hist) ==
  IF attempt > LastAttempt
  THEN [result |-> "False", file |-> file, hist |-> hist]
  ELSE LET o == outcomes[attempt] IN
       IF o \in {"connect_error", "stream_error"}
       THEN download_file_from(attempt + 1, sha1sum, AfterError(file, o), outcomes,
              Append(hist, [attempt |-> attempt, logged |-> "Error downloading",
                            delay |-> RETRY_DELAY]))
       ELSE IF Truthy(sha1sum)
       THEN IF verify_sha1(BodyOf(o), sha1sum, o # "body_unreadable")
            THEN [result |-> "True", file |-> BodyOf(o),
                  hist |-> Append(hist, [attempt |-> attempt,
                             logged |-> "Downloaded and verified", delay |-> 0])]
            ELSE download_file_from(attempt + 1, sha1sum, AfterMismatch(BodyOf(o)),
                   outcomes,
                   Append(hist, [attempt |-> attempt, logged |-> "SHA-1 mismatch",
                                 delay |-> MismatchDelay]))
       ELSE [result |-> "True", file |-> BodyOf(o),
             hist |-> Append(hist, [attempt |-> attempt, logged |-> "Downloaded",
                                    delay |-> 0])]

\* download_file(url, dest_path, sha1sum=None)
download_file(sha1sum, file, outcomes) ==
  download_file_from(1, sha1sum, file, outcomes, <<>>)

\* The values of sha1sum: missing, empty, or the digest of the asset.
Sha1Sums == {None, "", Sha1("good")}

\* What a caller of download_file can observe: the return value and the file
\* at dest_path, for every behaviour of the environment.
download_file_results ==
  [sha1sum \in Sha1Sums, file \in {Absent} \cup Contents |->
     { [result |-> download_file(sha1sum, file, o).result,
        file |-> download_file(sha1sum, file, o).file] : o \in DownloadOutcomes }]

NoDownload ==
  [sha1sum |-> None, outcomes |-> <<>>, result |-> "none", hist |-> <<>>]

\* ---------------------------------------------------------------- registry
\* An asset descriptor of a registry entry. present: the key (video_main_rgb,
\* main_groundtruth) is in the entry; filename, download_url: the field holds a
\* non-empty string; sha1sum: None when the field is missing.
NoDescriptor ==
  [present |-> FALSE, filename |-> FALSE, download_url |-> FALSE, sha1sum |-> None]

VideoDescriptors ==
  { NoDescriptor,
    [present |-> TRUE, filename |-> FALSE, download_url |-> TRUE, sha1sum |-> Sha1("good")],
    [present |-> TRUE, filename |-> TRUE, download_url |-> TRUE, sha1sum |-> Sha1("good")],
    [present |-> TRUE, filename |-> TRUE, download_url |-> TRUE, sha1sum |-> None] }

GroundtruthDescriptors ==
  { NoDescriptor,
    [present |-> TRUE, filename |-> TRUE, download_url |-> FALSE, sha1sum |-> Sha1("good")],
    [present |-> TRUE, filename |-> TRUE, download_url |-> TRUE, sha1sum |-> Sha1("good")] }

Entries == [video_main_rgb : VideoDescriptors, main_groundtruth : GroundtruthDescriptors]

\* The entry standing in for a registry that was never loaded.
NoEntry == [video_main_rgb |-> NoDescriptor, main_groundtruth |-> NoDescriptor]

\* ---------------------------------------------------------------- labels
\* A sequence id is held as sequence_id.split('_') gives it: the sequence of
\* its underscore-separated tokens, never empty (''.split('_') is ['']).
\* The registry keys of the sequences, in the registry's iteration order.
SequenceName(s) ==
  CASE s = 1 -> <<"Lite", "release", "skeleton", "COOK", "seq1">>
    [] s = 2 -> <<"ADT", "release", "clean", "seq2">>
    [] s = 3 -> <<"ADT", "release", "multiuser">>
    [] s = 4 -> <<"Lite", "clean", "seq4">>

\* str.lower() on the tokens.
Lower(token) ==
  CASE token = "Release" -> "release"
    [] token = "MultiSkeleton" -> "multiskeleton"
    [] token = "COOK" -> "cook"
    [] token = "ADT" -> "adt"
    [] token = "Lite" -> "lite"
    [] OTHER -> token

\* str.capitalize() on the tokens: first character upper case, the rest lower.
Capitalize(token) ==
  CASE token = "release" -> "Release"
    [] token = "skeleton" -> "Skeleton"
    [] token = "MultiSkeleton" -> "Multiskeleton"
    [] token = "multiuser" -> "Multiuser"
    [] token = "clean" -> "Clean"
    [] token = "COOK" -> "Cook"
    [] token = "ADT" -> "Adt"
    [] token = "seq1" -> "Seq1"
    [] token = "seq2" -> "Seq2"
    [] token = "seq4" -> "Seq4"
    [] OTHER -> token

\* list.index(x): the first position of x (from 1), 0 standing for ValueError.
RECURSIVE IndexFrom(_, _, _)
IndexFrom(parts, x, i) ==
  IF i > Len(parts) THEN 0
  ELSE IF parts[i] = x THEN i
  ELSE IndexFrom(parts, x, i + 1)

\* The tokens after which parse_activity_label looks one token further.
\* (mutation: multiuser is not in the list)
SkipTokens_short == {"skeleton", "multiskeleton"}
SkipTokens == {"skeleton", "multiskeleton", "multiuser"}

NoException == "none"

\* The try block of parse_activity_label: the value it returns, or the
\* exception it raises.
ParseBody(parts) ==
  LET release_idx == IndexFrom(parts, "release", 1) IN
  IF release_idx = 0 THEN [exc |-> "ValueError", value |-> None]
  ELSE IF release_idx + 1 > Len(parts) THEN [exc |-> "IndexError", value |-> None]
  ELSE IF Lower(parts[release_idx + 1]) \in SkipTokens
  THEN IF release_idx + 2 > Len(parts)
       THEN [exc |-> "IndexError", value |-> None]
       ELSE [exc |-> NoException, value |-> Capitalize(parts[release_idx + 2])]
  ELSE [exc |-> NoException, value |-> Capitalize(parts[release_idx + 1])]

\* `except (ValueError, IndexError)`
\* (mutation: IndexError is not caught)
CaughtByParse_value == {"ValueError"}
CaughtByParse == {"ValueError", "IndexError"}

\* parse_activity_label(sequence_id): raised is the exception that leaves the
\* function, value what it returns otherwise.
parse_activity_label(parts) ==
  LET body == ParseBody(parts) IN
  IF body.exc = NoException THEN [raised |-> NoException, value |-> body.value]
  ELSE IF body.exc \in CaughtByParse THEN [raised |-> NoException, value |-> "Unknown"]
  ELSE [raised |-> body.exc, value |-> None]

\* One value of instances.json: instance_name is None when the key is
\* missing, motion_type is what info.get('motion_type') returns.
InstanceNames == {"Sponge", "ChoppingBoard", "Table"}
InstanceInfos ==
  [instance_name : InstanceNames \cup {None}, motion_type : {"dynamic", "static", None}]

\* What open() and json.load() find at annotations_dir/instances.json: no
\* file, a file that is not JSON, or the instances in the file's order.
Missing == [state |-> "missing", instances |-> <<>>]
Malformed == [state |-> "malformed", instances |-> <<>>]
Loaded(instances) == [state |-> "loaded", instances |-> instances]

\* (mutation: every instance counts as dynamic)
IsDynamic_all(info) == TRUE
IsDynamic(info) == info.motion_type = "dynamic"

\* [info['instance_name'] for info in instances.values()
\*    if info.get('motion_type') == 'dynamic']; KeyError when a dynamic instance
\* has no instance_name.
RECURSIVE KeyObjects(_)
KeyObjects(instances) ==
  IF instances = <<>> THEN [exc |-> NoException, value |-> <<>>]
  ELSE LET info == Head(instances)
           rest == KeyObjects(Tail(instances)) IN
       IF ~IsDynamic(info) THEN rest
       ELSE IF info.instance_name = None THEN [exc |-> "KeyError", value |-> <<>>]
       ELSE IF rest.exc # NoException THEN rest
       ELSE [exc |-> NoException, value |-> <<info.instance_name>> \o rest.value]

\* ", ".join(names)
RECURSIVE Join(_)
Join(names) ==
  IF names = <<>> THEN ""
  ELSE IF Len(names) = 1 THEN names[1]
  ELSE names[1] \o ", " \o Join(Tail(names))

\* generate_composite_label(sequence_id, annotations_dir), given what is at
\* annotations_dir/instances.json; `except Exception` returns "Unknown".
generate_composite_label(parts, instances_file) ==
  IF instances_file.state # "loaded" THEN "Unknown"
  ELSE LET key_objects == KeyObjects(instances_file.instances)
           activity_label == parse_activity_label(parts) IN
       IF key_objects.exc # NoException \/ activity_label.raised # NoException
       THEN "Unknown"
       ELSE IF key_objects.value # <<>>
       THEN activity_label.value \o " with " \o Join(key_objects.value)
       ELSE activity_label.value

\* The instances.json the ground-truth archive of a sequence holds.
InstancesOf(s) ==
  CASE s = 1 -> << [instance_name |-> "Sponge", motion_type |-> "dynamic"],
                   [instance_name |-> "Table", motion_type |-> "static"],
                   [instance_name |-> "ChoppingBoard", motion_type |-> "dynamic"] >>
    [] s = 2 -> << [instance_name |-> "Table", motion_type |-> "static"] >>
    [] OTHER -> << [instance_name |-> "Sponge", motion_type |-> "dynamic"] >>

\* What is at annotations_dir/instances.json of sequence s, given the state of
\* its annotation directory.
InstancesFile(ann, s) ==
  CASE ann = "empty" -> Missing
    [] ann = "junk" -> Malformed
    [] ann = "instances" -> Loaded(InstancesOf(s))

\* The label process_sequence computes. download_convert.py calls
\* generate_composite_label only when the ground-truth filename is set
\* (annotations_dir is None otherwise) and takes "Unknown" if not.
composite_label(v, entry, ann, s) ==
  IF v = "download_convert" /\ ~entry.main_groundtruth.filename
  THEN "Unknown"
  ELSE generate_composite_label(SequenceName(s), InstancesFile(ann, s))

\* ---------------------------------------------------------------- process_sequence
\* All the outputs of sequence s exist: video file, frame images,
\* ground-truth archive, non-empty annotation directory.
OutputsExist(f, s) ==
  /\ f[s].video # Absent
  /\ f[s].frames
  /\ f[s].gt # Absent
  /\ f[s].ann # "empty"

NoInvocation ==
  [id |-> 1, pre_complete |-> FALSE, pre_metadata |-> <<>>,
   video |-> "none", frames |-> "none", gt |-> "none", zip |-> "none",
   label |-> None, result |-> "none"]

\* process_sequence(sequence_id, ...) is entered by its caller.
EnterSequence(s) ==
  [NoInvocation EXCEPT !.id = s, !.pre_complete = OutputsExist(fs, s),
                       !.pre_metadata = metadata_list]

\* The video descriptor can be used: `video_filename and video_url`.
HasVideoInfo(entry) ==
  entry.video_main_rgb.filename /\ entry.video_main_rgb.download_url

\* The ground-truth descriptor can be used: `groundtruth_filename and groundtruth_url`.
HasGroundtruthInfo(entry) ==
  entry.main_groundtruth.filename /\ entry.main_groundtruth.download_url

\* What process_sequence does when the video descriptor cannot be used.
\* download_convert.py: "No video information", return False.
\* get_data.py: sequence_data['video_main_rgb'] raises KeyError when the key is
\* absent; otherwise the video steps are skipped and it goes on to the ground truth.
NoVideoInfo(v, entry) ==
  IF v = "download_convert" THEN "False"
  ELSE IF ~entry.video_main_rgb.present THEN "KeyError"
  ELSE "ps_gt"

\* Entry of process_sequence up to the video download: the descriptors are read.
process_sequence_enter ==
  /\ pc = "ps_enter"
  /\ LET entry == registry[ps.id]
         other == NoVideoInfo(variant, entry) IN
     IF HasVideoInfo(entry)
     THEN /\ ps' = ps
          /\ pc' = "ps_video"
     ELSE IF other = "ps_gt"
     THEN /\ ps' = ps
          /\ pc' = "ps_gt"
     ELSE /\ ps' = [ps EXCEPT !.result = other]
          /\ pc' = "ps_return"
  /\ UNCHANGED <<variant, registry_ok, registry, max_download, fs, idx, n_items,
                 downloaded, metadata_list, dl, run, call>>

\* "Download video": skipped when the file exists, else download_file is
\* called and `if not success: return False`.
process_sequence_video ==
  /\ pc = "ps_video"
  /\ IF ~path_exists(fs[ps.id].video)
     THEN \E r \in download_file_results[registry[ps.id].video_main_rgb.sha1sum,
                                         fs[ps.id].video] :
            /\ fs' = [fs EXCEPT ![ps.id].video = r.file]
            /\ IF r.result = "True"
               THEN /\ ps' = [ps EXCEPT !.video = "ok"]
                    /\ pc' = "ps_frames"
               ELSE /\ ps' = [ps EXCEPT !.video = "failed", !.result = "False"]
                    /\ pc' = "ps_return"
     ELSE /\ fs' = fs
          /\ ps' = [ps EXCEPT !.video = "exists"]
          /\ pc' = "ps_frames"
  /\ UNCHANGED <<variant, registry_ok, registry, max_download, idx, n_items,
                 downloaded, metadata_list, dl, run, call>>

\* What extract_frames can do: its return value and whether frame images of
\* the sequence are on disk afterwards.
\* download_convert.py runs ffmpeg once with check=True and then requires at
\* least one frame; ffmpeg may leave frames behind and still exit with an error.
\* get_data.py returns False only when the probe fails (no frame was written
\* yet) and never looks at the exit status or the output of the frame commands.
ExtractFramesOutcomes(v) ==
  IF v = "download_convert"
  THEN { [ret |-> "True", frames |-> TRUE],
         [ret |-> "False", frames |-> FALSE],
         [ret |-> "False", frames |-> TRUE] }
  ELSE { [ret |-> "True", frames |-> TRUE],
         [ret |-> "True", frames |-> FALSE],
         [ret |-> "False", frames |-> FALSE] }

\* Where process_sequence goes after extract_frames returned:
\* `if not success: ... return False`.
\* (mutation: the return value of extract_frames is ignored)
AfterExtractFrames_ignore(ret) == "ps_gt"
AfterExtractFrames(ret) == IF ret = "True" THEN "ps_gt" ELSE "ps_return"

\* "Extract frames": skipped when frames of the sequence exist.
process_sequence_frames ==
  /\ pc = "ps_frames"
  /\ IF ~fs[ps.id].frames
     THEN \E o \in ExtractFramesOutcomes(variant) :
            /\ fs' = [fs EXCEPT ![ps.id].frames = o.frames]
            /\ ps' = [ps EXCEPT !.frames = IF o.ret = "True" THEN "ok" ELSE "failed",
                                !.result = IF AfterExtractFrames(o.ret) = "ps_return"
                                           THEN "False" ELSE @]
            /\ pc' = AfterExtractFrames(o.ret)
     ELSE /\ fs' = fs
          /\ ps' = [ps EXCEPT !.frames = "exists"]
          /\ pc' = "ps_gt"
  /\ UNCHANGED <<variant, registry_ok, registry, max_download, idx, n_items,
                 downloaded, metadata_list, dl, run, call>>

\* "Download ground truth": only with a usable descriptor; skipped when the
\* archive exists, else download_file is called and `if not success: return False`.
process_sequence_groundtruth ==
  /\ pc = "ps_gt"
  /\ IF HasGroundtruthInfo(registry[ps.id])
     THEN IF ~path_exists(fs[ps.id].gt)
          THEN \E r \in download_file_results[registry[ps.id].main_groundtruth.sha1sum,
                                              fs[ps.id].gt] :
                 /\ fs' = [fs EXCEPT ![ps.id].gt = r.file]
                 /\ IF r.result = "True"
                    THEN /\ ps' = [ps EXCEPT !.gt = "ok"]
                         /\ pc' = "ps_unzip"
                    ELSE /\ ps' = [ps EXCEPT !.gt = "failed", !.result = "False"]
                         /\ pc' = "ps_return"
          ELSE /\ fs' = fs
               /\ ps' = [ps EXCEPT !.gt = "exists"]
               /\ pc' = "ps_unzip"
     ELSE /\ fs' = fs
          /\ ps' = ps
          /\ pc' = "ps_label"
  /\ UNCHANGED <<variant, registry_ok, registry, max_download, idx, n_items,
                 downloaded, metadata_list, dl, run, call>>

\* What extract_zip can do: its return value and the annotation directory
\* afterwards ("instances": it holds a readable instances.json; "junk": it
\* holds files, but no readable instances.json).
ExtractZipOutcomes ==
  { [ret |-> "True", ann |-> "instances"],
    [ret |-> "True", ann |-> "junk"],
    [ret |-> "False", ann |-> "empty"] }

\* "Extract ground truth": skipped when the annotation directory is not empty.
process_sequence_unzip ==
  /\ pc = "ps_unzip"
  /\ IF fs[ps.id].ann = "empty"
     THEN \E o \in ExtractZipOutcomes :
            /\ fs' = [fs EXCEPT ![ps.id].ann = o.ann]
            /\ IF o.ret = "True"
               THEN /\ ps' = [ps EXCEPT !.zip = "ok"]
                    /\ pc' = "ps_label"
               ELSE /\ ps' = [ps EXCEPT !.zip = "failed", !.result = "False"]
                    /\ pc' = "ps_return"
     ELSE /\ fs' = fs
          /\ ps' = [ps EXCEPT !.zip = "exists"]
          /\ pc' = "ps_label"
  /\ UNCHANGED <<variant, registry_ok, registry, max_download, idx, n_items,
                 downloaded, metadata_list, dl, run, call>>

\* The record download_convert.process_sequence appends; get_data.py keeps none.
AppendRecord(v, list, s, label) ==
  IF v = "download_convert"
  THEN Append(list, [sequence_id |-> s, activity_label |-> label,
                     frames_path |-> "images"])
  ELSE list

\* "Generate composite label", "Add to metadata list", return True.
process_sequence_label ==
  /\ pc = "ps_label"
  /\ metadata_list' = AppendRecord(variant, metadata_list, ps.id,
                        composite_label(variant, registry[ps.id], fs[ps.id].ann, ps.id))
  /\ ps' = [ps EXCEPT !.result = "True",
                      !.label = composite_label(variant, registry[ps.id],
                                                fs[ps.id].ann, ps.id)]
  /\ pc' = "ps_return"
  /\ UNCHANGED <<variant, registry_ok, registry, max_download, fs, idx, n_items,
                 downloaded, dl, run, call>>

process_sequence ==
  \/ process_sequence_enter
  \/ process_sequence_video
  \/ process_sequence_frames
  \/ process_sequence_groundtruth
  \/ process_sequence_unzip
  \/ process_sequence_label

\* ---------------------------------------------------------------- manifest
\* Frames extract_frames (download_convert.py) writes for one video.
FramesPerVideo == 2

\* The %04d part of ffmpeg's output pattern "<sequence_id>_frame%04d.jpg".
FrameToken(n) ==
  CASE n = 1 -> "frame0001"
    [] n = 2 -> "frame0002"
    [] n = 3 -> "frame0003"
    [] n = 4 -> "frame0004"

\* A file name, as os.path.splitext sees it: the stem (its underscore-separated
\* tokens) and the extension.
FrameFile(s, n) == [stem |-> SequenceName(s) \o <<FrameToken(n)>>, ext |-> ".jpg"]

\* The frame images of sequence s in the directory 'images'.
FramesOf(s) == {FrameFile(s, n) : n \in 1..FramesPerVideo}

\* Files in a frames directory that no extract_frames wrote.
ForeignFiles ==
  { [stem |-> <<"Thumbs">>, ext |-> ".db"],
    [stem |-> <<"cover">>, ext |-> ".PNG"],
    [stem |-> <<"cover">>, ext |-> ".jpg"] }

\* f.lower().endswith(('.png', '.jpg', '.jpeg'))
Recognised(file) ==
  (IF file.ext = ".PNG" THEN ".png" ELSE file.ext) \in {".png", ".jpg", ".jpeg"}

\* The sequence ids in the string order of their names:
\* "ADT_release_clean_seq2" < "ADT_release_multiuser" < "Lite_clean_seq4"
\*   < "Lite_release_skeleton_COOK_seq1".
NameOrder == SelectSeq(<<2, 3, 4, 1>>, LAMBDA s : s \in SeqIds)

RECURSIVE FramesInOrder(_, _)
FramesInOrder(seqs, n) ==
  IF seqs = <<>> THEN <<>>
  ELSE IF n > FramesPerVideo THEN FramesInOrder(Tail(seqs), 1)
  ELSE <<FrameFile(Head(seqs), n)>> \o FramesInOrder(seqs, n + 1)

\* All the file names in ascending string order (upper case sorts before
\* lower case): the frames by sequence name and number, then "Thumbs.db",
\* "cover.PNG", "cover.jpg".
FilesInOrder ==
  FramesInOrder(NameOrder, 1)
    \o << [stem |-> <<"Thumbs">>, ext |-> ".db"],
          [stem |-> <<"cover">>, ext |-> ".PNG"],
          [stem |-> <<"cover">>, ext |-> ".jpg"] >>

\* sorted(names)
\* (mutation: the listing is reversed)
Sorted_reverse(names) ==
  LET up == SelectSeq(FilesInOrder, LAMBDA f : f \in names) IN
  [k \in 1..Len(up) |-> up[Len(up) + 1 - k]]
Sorted(names) == SelectSeq(FilesInOrder, LAMBDA f : f \in names)

\* A directory that does not exist; a directory holding the given files.
NoDir == [exists |-> FALSE, files |-> {}]
Dir(files) == [exists |-> TRUE, files |-> files]

\* The directory tree under dataset_dir that the conversion reads, given the
\* dataset directory of a run: 'images' (made by process_sequence before
\* anything else) holds the frames of every sequence that has any.
DiskOf(f) ==
  [images |-> Dir(UNION {IF f[s].frames THEN FramesOf(s) ELSE {} : s \in SeqIds}),
   elsewhere |-> NoDir]

\* The samples of one row: none when its frames directory does not exist or
\* holds no recognised image (`continue`), else one per image, in sorted
\* order, with the row's label. Every listed file exists when it is looked at.
\* (mutation: a row that is skipped ends the loop)
AfterSkippedRow_stop(rest) == <<>>
AfterSkippedRow(rest) == rest

RowSamples(row, disk) ==
  IF ~disk[row.frames_path].exists THEN <<>>
  ELSE LET frame_files == Sorted({f \in disk[row.frames_path].files : Recognised(f)}) IN
       [k \in 1..Len(frame_files) |->
          [id |-> SequenceName(row.sequence_id) \o frame_files[k].stem,
           image |-> <<row.frames_path, frame_files[k]>>,
           value |-> row.activity_label]]

\* The loop over the rows of the metadata CSV.
RECURSIVE Samples(_, _)
Samples(rows, disk) ==
  IF rows = <<>> THEN <<>>
  ELSE LET here == RowSamples(Head(rows), disk) IN
       IF here = <<>> THEN AfterSkippedRow(Samples(Tail(rows), disk))
       ELSE here \o Samples(Tail(rows), disk)

\* convert_metadata_to_llava_json: the samples, and whether they were written
\* to output_json_path (an IOError there is logged, json_ok = FALSE).
convert_metadata_to_llava_json(rows, disk, json_ok) ==
  [written |-> json_ok, manifest |-> IF json_ok THEN Samples(rows, disk) ELSE <<>>]

\* ---------------------------------------------------------------- main
NoRun ==
  [started |-> <<>>, logged |-> <<>>, csv_written |-> FALSE, csv |-> <<>>,
   converted |-> FALSE, manifest_written |-> FALSE, manifest |-> <<>>,
   exit_code |-> -1, exit_reason |-> "running"]

\* sys.exit(code), or the end of the script (code 0), or an exception nobody
\* catches (the interpreter exits with code 1).
Exit(code, reason) ==
  /\ run' = [run EXCEPT !.exit_code = code, !.exit_reason = reason]
  /\ pc' = "exit"

CapValues == 0..(NumSeqs + 1)

\* The values of --max_download: an integer, or None (download_convert.py's default).
CapArguments(v) ==
  [is_none : {FALSE}, value : CapValues]
    \cup (IF v = "download_convert" THEN {[is_none |-> TRUE, value |-> 0]} ELSE {})

\* main: the registry file is opened and parsed; sys.exit(1) on any failure.
main_load ==
  /\ pc = "main"
  /\ IF registry_ok
     THEN /\ pc' = IF variant = "download_convert" THEN "cap" ELSE "loop"
          /\ run' = run
     ELSE Exit(1, "registry")
  /\ UNCHANGED <<variant, registry_ok, registry, max_download, fs, idx, n_items,
                 downloaded, metadata_list, ps, dl, call>>

\* `if max_download is not None: if max_download <= 0:`
\* (mutation: the cap is not validated)
CapInvalid_never(cap) == FALSE
CapInvalid(cap) == ~cap.is_none /\ cap.value <= 0

\* download_convert.main: the cap is validated and sequence_items is cut to it.
main_cap ==
  /\ pc = "cap"
  /\ IF CapInvalid(max_download)
     THEN /\ Exit(1, "cap")
          /\ n_items' = n_items
     ELSE /\ n_items' = IF max_download.is_none \/ max_download.value > NumSeqs
                        THEN NumSeqs ELSE max_download.value
          /\ pc' = "loop"
          /\ run' = run
  /\ UNCHANGED <<variant, registry_ok, registry, max_download, fs, idx,
                 downloaded, metadata_list, ps, dl, call>>

\* Whether get_data.main leaves its loop before the next sequence:
\* `if downloaded >= max_download: break`. download_convert.main has no break.
\* (mutation: the loop never breaks)
LimitReached_never(v, count, cap) == FALSE
LimitReached(v, count, cap) == v = "get_data" /\ count >= cap.value

\* The head of the driver's loop: the next sequence is handed to
\* process_sequence, or the loop ends.
main_loop ==
  /\ pc = "loop"
  /\ IF idx > n_items \/ LimitReached(variant, downloaded, max_download)
     THEN /\ IF variant = "download_convert"
             THEN /\ pc' = "save"
                  /\ run' = run
             ELSE Exit(0, "end")
          /\ ps' = ps
     ELSE /\ ps' = EnterSequence(idx)
          /\ run' = [run EXCEPT !.started = Append(@, idx)]
          /\ pc' = "ps_enter"
  /\ UNCHANGED <<variant, registry_ok, registry, max_download, fs, idx, n_items,
                 downloaded, metadata_list, dl, call>>

\* process_sequence returned to main: the outcome is logged, get_data.py counts
\* the success; an exception raised by process_sequence is caught nowhere.
main_result ==
  /\ pc = "ps_return"
  /\ IF ps.result = "KeyError"
     THEN /\ Exit(1, "KeyError")
          /\ UNCHANGED <<idx, downloaded>>
     ELSE /\ run' = [run EXCEPT !.logged = Append(@,
                       [id |-> ps.id,
                        line |-> IF ps.result = "True" THEN "Successfully processed"
                                 ELSE "Failed to process"])]
          /\ downloaded' = IF variant = "get_data" /\ ps.result = "True"
                           THEN downloaded + 1 ELSE downloaded
          /\ idx' = idx + 1
          /\ pc' = "loop"
  /\ ps' = NoInvocation
  /\ UNCHANGED <<variant, registry_ok, registry, max_download, fs, n_items,
                 metadata_list, dl, call>>

\* download_convert.main: "Save metadata to CSV"; sys.exit(1) when the file
\* cannot be written (csv_ok = FALSE).
main_save_metadata(csv_ok) ==
  /\ pc = "save"
  /\ IF csv_ok
     THEN /\ run' = [run EXCEPT !.csv_written = TRUE, !.csv = metadata_list]
          /\ pc' = "convert"
     ELSE Exit(1, "csv")
  /\ UNCHANGED <<variant, registry_ok, registry, max_download, fs, idx, n_items,
                 downloaded, metadata_list, ps, dl, call>>

\* download_convert.main: convert_metadata_to_llava_json, then the script ends.
\* An IOError while writing the JSON file (json_ok = FALSE) is logged only.
main_convert(json_ok) ==
  /\ pc = "convert"
  /\ LET out == convert_metadata_to_llava_json(run.csv, DiskOf(fs), json_ok) IN
     run' = [run EXCEPT !.converted = TRUE,
                        !.manifest_written = out.written,
                        !.manifest = out.manifest,
                        !.exit_code = 0, !.exit_reason = "end"]
  /\ pc' = "exit"
  /\ UNCHANGED <<variant, registry_ok, registry, max_download, fs, idx, n_items,
                 downloaded, metadata_list, ps, dl, call>>

main ==
  \/ main_load
  \/ main_cap
  \/ main_loop
  \/ main_result
  \/ \E csv_ok \in BOOLEAN : main_save_metadata(csv_ok)
  \/ \E json_ok \in BOOLEAN : main_convert(json_ok)

\* No function is called on its own.
NoCall == [fn |-> "none"]

\* ---------------------------------------------------------------- whole runs
\* A run of either script on an empty dataset directory.
Init ==
  /\ variant \in {"get_data", "download_convert"}
  /\ registry_ok \in BOOLEAN
  /\ registry \in [SeqIds -> Entries]
  /\ registry_ok = FALSE => registry = [s \in SeqIds |-> NoEntry]
  /\ max_download \in CapArguments(variant)
  /\ fs = [s \in SeqIds |-> EmptyDir]
  /\ pc = "main"
  /\ idx = 1
  /\ n_items = NumSeqs
  /\ downloaded = 0
  /\ metadata_list = <<>>
  /\ ps = NoInvocation
  /\ dl = NoDownload
  /\ run = NoRun
  /\ call = NoCall

Next ==
  \/ main
  \/ process_sequence

Spec == Init /\ [][Next]_vars

\* ---------------------------------------------------------------- download_file alone
\* download_file called as its callers call it: on a destination path where
\* no file exists, with any value of sha1sum and any behaviour of the network.
call_download_file ==
  /\ pc = "fetch"
  /\ \E sha1sum \in Sha1Sums, o \in DownloadOutcomes :
       LET r == download_file(sha1sum, Absent, o) IN
       /\ dl' = [sha1sum |-> sha1sum, outcomes |-> o, result |-> r.result,
                 hist |-> r.hist]
       /\ fs' = [fs EXCEPT ![1].video = r.file]
  /\ pc' = "fetched"
  /\ UNCHANGED <<variant, registry_ok, registry, max_download, idx, n_items,
                 downloaded, metadata_list, ps, run, call>>

InitFetch ==
  /\ variant = "download_convert"
  /\ registry_ok = TRUE
  /\ registry = [s \in SeqIds |-> NoEntry]
  /\ max_download = [is_none |-> TRUE, value |-> 0]
  /\ fs = [s \in SeqIds |-> EmptyDir]
  /\ pc = "fetch"
  /\ idx = 1
  /\ n_items = NumSeqs
  /\ downloaded = 0
  /\ metadata_list = <<>>
  /\ ps = NoInvocation
  /\ dl = NoDownload
  /\ run = NoRun
  /\ call = NoCall

NextFetch == call_download_file

SpecFetch == InitFetch /\ [][NextFetch]_vars

\* ---------------------------------------------------------------- process_sequence alone
\* process_sequence called again and again on one sequence of the registry,
\* over the same dataset directory (as successive runs of a script do), each
\* time with the empty metadata_list of a new run.
call_process_sequence ==
  /\ pc = "idle"
  /\ metadata_list' = <<>>
  /\ ps' = [NoInvocation EXCEPT !.id = 1, !.pre_complete = OutputsExist(fs, 1)]
  /\ pc' = "ps_enter"
  /\ UNCHANGED <<variant, registry_ok, registry, max_download, fs, idx, n_items,
                 downloaded, dl, run, call>>

\* process_sequence returned (or raised) to the caller.
return_process_sequence ==
  /\ pc = "ps_return"
  /\ pc' = "idle"
  /\ UNCHANGED <<variant, registry_ok, registry, max_download, fs, idx, n_items,
                 downloaded, metadata_list, ps, dl, run, call>>

InitSeq ==
  /\ variant \in {"get_data", "download_convert"}
  /\ registry_ok = TRUE
  /\ \E e \in Entries : registry = [s \in SeqIds |-> e]
  /\ max_download = [is_none |-> FALSE, value |-> 1]
  /\ fs = [s \in SeqIds |-> EmptyDir]
  /\ pc = "idle"
  /\ idx = 1
  /\ n_items = NumSeqs
  /\ downloaded = 0
  /\ metadata_list = <<>>
  /\ ps = NoInvocation
  /\ dl = NoDownload
  /\ run = NoRun
  /\ call = NoCall

NextSeq ==
  \/ call_process_sequence
  \/ return_process_sequence
  \/ process_sequence

SpecSeq == InitSeq /\ [][NextSeq]_vars

\* ---------------------------------------------------------------- the label functions alone
\* Longest sequence id (in tokens) and longest instances.json (in instances)
\* the label functions are called with.
MaxTokens == 4
MaxInstances == 2

\* The tokens the sequence ids are made of; "" is the token between two
\* adjacent underscores.
Words ==
  {"release", "Release", "skeleton", "MultiSkeleton", "multiuser", "clean", "COOK", ""}

\* The sequences over S of length lo to hi.
SeqsOf(S, lo, hi) == UNION {[1..k -> S] : k \in lo..hi}

\* parse_activity_label called with any sequence id.
call_parse_activity_label ==
  /\ pc = "label"
  /\ \E parts \in SeqsOf(Words, 1, MaxTokens) :
       call' = [fn |-> "parse_activity_label", parts |-> parts,
                instances_file |-> Missing,
                result |-> parse_activity_label(parts)]
  /\ pc' = "labelled"
  /\ UNCHANGED <<variant, registry_ok, registry, max_download, fs, idx, n_items,
                 downloaded, metadata_list, ps, dl, run>>

\* generate_composite_label called with a registry key and any instances.json.
call_generate_composite_label ==
  /\ pc = "label"
  /\ \E s \in SeqIds,
        file \in {Missing, Malformed}
                   \cup {Loaded(i) : i \in SeqsOf(InstanceInfos, 0, MaxInstances)} :
       call' = [fn |-> "generate_composite_label", parts |-> SequenceName(s),
                instances_file |-> file,
                result |-> [raised |-> NoException,
                            value |-> generate_composite_label(SequenceName(s), file)]]
  /\ pc' = "labelled"
  /\ UNCHANGED <<variant, registry_ok, registry, max_download, fs, idx, n_items,
                 downloaded, metadata_list, ps, dl, run>>

InitLabel ==
  /\ variant = "download_convert"
  /\ registry_ok = TRUE
  /\ registry = [s \in SeqIds |-> NoEntry]
  /\ max_download = [is_none |-> TRUE, value |-> 0]
  /\ fs = [s \in SeqIds |-> EmptyDir]
  /\ pc = "label"
  /\ idx = 1
  /\ n_items = NumSeqs
  /\ downloaded = 0
  /\ metadata_list = <<>>
  /\ ps = NoInvocation
  /\ dl = NoDownload
  /\ run = NoRun
  /\ call = NoCall

NextLabel ==
  \/ call_parse_activity_label
  \/ call_generate_composite_label

SpecLabel == InitLabel /\ [][NextLabel]_vars

\* ---------------------------------------------------------------- the manifest builder alone
\* The label a row carries in the calls below: the one the sequence gets with
\* its ground truth unpacked.
LabelOf(s) == generate_composite_label(SequenceName(s), Loaded(InstancesOf(s)))

\* The metadata files the builder is called with: rows of distinct
\* sequences (the registry keys are distinct), in any order, each naming
\* 'images' or a directory that does not exist.
MetadataRows ==
  { [sequence_id |-> s, activity_label |-> LabelOf(s), frames_path |-> path] :
      s \in SeqIds, path \in {"images", "elsewhere"} }

MetadataFiles ==
  { rows \in SeqsOf(MetadataRows, 0, NumSeqs) :
      \A i, j \in 1..Len(rows) : i # j => rows[i].sequence_id # rows[j].sequence_id }

\* The directory trees: 'images' does not exist, or holds all the frames of
\* some sequences and some files of other origin.
Disks ==
  { [images |-> NoDir, elsewhere |-> NoDir] }
    \cup { [images |-> Dir(UNION {FramesOf(s) : s \in with} \cup foreign),
            elsewhere |-> NoDir] :
             with \in SUBSET SeqIds, foreign \in SUBSET ForeignFiles }

call_convert_metadata_to_llava_json ==
  /\ pc = "manifest"
  /\ \E rows \in MetadataFiles, disk \in Disks, json_ok \in BOOLEAN :
       call' = [fn |-> "convert_metadata_to_llava_json", rows |-> rows,
                disk |-> disk, json_ok |-> json_ok,
                result |-> convert_metadata_to_llava_json(rows, disk, json_ok)]
  /\ pc' = "converted"
  /\ UNCHANGED <<variant, registry_ok, registry, max_download, fs, idx, n_items,
                 downloaded, metadata_list, ps, dl, run>>

InitManifest ==
  /\ variant = "download_convert"
  /\ registry_ok = TRUE
  /\ registry = [s \in SeqIds |-> NoEntry]
  /\ max_download = [is_none |-> TRUE, value |-> 0]
  /\ fs = [s \in SeqIds |-> EmptyDir]
  /\ pc = "manifest"
  /\ idx = 1
  /\ n_items = NumSeqs
  /\ downloaded = 0
  /\ metadata_list = <<>>
  /\ ps = NoInvocation
  /\ dl = NoDownload
  /\ run = NoRun
  /\ call = NoCall

NextManifest == call_convert_metadata_to_llava_json

SpecManifest == InitManifest /\ [][NextManifest]_vars

\* ================================================================ claims
\* ---------------------------------------------------------------- download_file (SpecFetch)
\* An attempt succeeds when the whole body arrives and, with a checksum
\* given, the stored file is read back with the expected digest.
AttemptSucceeds(sha1sum, outcome) ==
  /\ outcome \in {"body_good", "body_bad", "body_unreadable"}
  /\ Truthy(sha1sum) => outcome = "body_good"

\* The attempts of 1..MAX_RETRIES that the environment lets succeed.
SucceedingAttempts ==
  {k \in 1..MAX_RETRIES : AttemptSucceeds(dl.sha1sum, dl.outcomes[k])}

FailureLines == {"Error downloading", "SHA-1 mismatch"}
SuccessLines == {"Downloaded and verified", "Downloaded"}

\* C1: one call of download_file makes at most MAX_RETRIES attempts, numbered
\* 1, 2, ...; it returns True at the first attempt that succeeds (every
\* earlier one having failed), and returns False, after exactly MAX_RETRIES
\* failed attempts and no further one, when none of them succeeds.
C1_AtMostMaxRetries ==
  pc = "fetched" =>
    /\ Len(dl.hist) <= MAX_RETRIES
    /\ \A k \in 1..Len(dl.hist) : dl.hist[k].attempt = k
    /\ dl.result \in {"True", "False"}
    /\ dl.result = "True" <=> SucceedingAttempts # {}
    /\ dl.result = "True" =>
         /\ Len(dl.hist) \in SucceedingAttempts
         /\ \A k \in SucceedingAttempts : Len(dl.hist) <= k
         /\ dl.hist[Len(dl.hist)].logged \in SuccessLines
         /\ \A k \in 1..(Len(dl.hist) - 1) : dl.hist[k].logged \in FailureLines
    /\ dl.result = "False" =>
         /\ Len(dl.hist) = MAX_RETRIES
         /\ \A k \in 1..Len(dl.hist) : dl.hist[k].logged \in FailureLines

\* C1 witness: a call that returned False after a mix of transport errors and
\* checksum mismatches.
C1_Witness ==
  /\ pc = "fetched"
  /\ dl.result = "False"
  /\ \E j, k \in 1..Len(dl.hist) :
       dl.hist[j].logged = "Error downloading" /\ dl.hist[k].logged = "SHA-1 mismatch"

\* C2: after download_file, called with an expected checksum, returned False,
\* no file whose content fails that checksum is at the destination path.
C2_NoMismatchedFileAfterFailure ==
  (pc = "fetched" /\ Truthy(dl.sha1sum) /\ dl.result = "False") =>
    (fs[1].video = Absent \/ Sha1(fs[1].video) = dl.sha1sum)

\* C3: when download_file, called with a non-empty expected checksum, returns
\* True, the file at the destination path has that SHA-1 digest, and it is
\* the file the last attempt wrote and verify_sha1 read back.
C3_TrueMeansVerified ==
  (pc = "fetched" /\ Truthy(dl.sha1sum) /\ dl.result = "True") =>
    /\ fs[1].video # Absent
    /\ Sha1(fs[1].video) = dl.sha1sum
    /\ dl.outcomes[Len(dl.hist)] = "body_good"
    /\ dl.hist[Len(dl.hist)].logged = "Downloaded and verified"

\* C3 witness: a verified download that came after a checksum mismatch.
C3_Witness ==
  /\ pc = "fetched"
  /\ Truthy(dl.sha1sum)
  /\ dl.result = "True"
  /\ Len(dl.hist) > 1
  /\ dl.hist[1].logged = "SHA-1 mismatch"

\* C4: every failed attempt that is followed by another attempt is separated
\* from it by RETRY_DELAY, after a transport error and after a checksum
\* mismatch alike.
C4_DelayBeforeEveryRetry ==
  pc = "fetched" =>
    \A k \in 1..(Len(dl.hist) - 1) : dl.hist[k].delay = RETRY_DELAY

\* ---------------------------------------------------------------- process_sequence (SpecSeq)
Called == {"ok", "failed"}

\* C5: an invocation of process_sequence that starts with the video file,
\* the frame images, the ground-truth archive and a non-empty annotation
\* directory of its sequence in place never calls download_file,
\* extract_frames or extract_zip, and returns True.
C5_Idempotent ==
  ps.pre_complete =>
    /\ ps.video \notin Called
    /\ ps.gt \notin Called
    /\ ps.frames \notin Called
    /\ ps.zip \notin Called
    /\ ps.result \in {"none", "True"}
    /\ pc \in {"ps_return", "idle"} => ps.result = "True"

\* C5 witness: a later invocation returned after skipping all four steps.
C5_Witness ==
  /\ pc = "ps_return"
  /\ ps.pre_complete
  /\ ps.result = "True"
  /\ ps.video = "exists" /\ ps.frames = "exists"
  /\ ps.gt = "exists" /\ ps.zip = "exists"

\* ---------------------------------------------------------------- whole runs (Spec)
InInvocation ==
  pc \in {"ps_enter", "ps_video", "ps_frames", "ps_gt", "ps_unzip", "ps_label",
          "ps_return"}

Done == {"ok", "exists"}

\* One token sequence starts with another.
IsPrefix(p, q) == Len(p) <= Len(q) /\ SubSeq(q, 1, Len(p)) = p

\* The sequence ids main logged with the given line.
LoggedWith(line) ==
  {run.logged[k].id : k \in {j \in 1..Len(run.logged) : run.logged[j].line = line}}

C7_NoVideoInfoFails ==
  (pc = "ps_return" /\ ~HasVideoInfo(registry[ps.id])) =>
    /\ ps.result = "False"
    /\ ps.video = "none"
    /\ ps.frames = "none"

\* The cap as the claims read it: the number of sequences the run may start.
CapLimit ==
  IF max_download.is_none \/ max_download.value > NumSeqs
  THEN NumSeqs ELSE max_download.value

\* C8 (as claimed): with cap max_download = k the driver invokes
\* process_sequence on at most k sequences, whatever succeeds or fails, and
\* logs no sequence it did not start.
C8_AtMostCapStarted ==
  ~max_download.is_none =>
    /\ Len(run.started) <= max_download.value
    /\ LoggedWith("Failed to process") \subseteq {run.started[k] : k \in 1..Len(run.started)}

\* C8 (amended): download_convert.main invokes process_sequence on at most k
\* sequences; get_data.main counts only the successes against the cap: at
\* most k sequences succeed, and at most k plus the number of failed ones are
\* started. Both start the sequences in registry order and log none they did
\* not start.
C8_CapByVariant ==
  ~max_download.is_none =>
    /\ variant = "download_convert" => Len(run.started) <= max_download.value
    /\ variant = "get_data" =>
         /\ Cardinality(LoggedWith("Successfully processed")) <= max_download.value
         /\ Len(run.started) <= max_download.value
                                  + Cardinality(LoggedWith("Failed to process"))
    /\ \A k \in 1..Len(run.started) : run.started[k] = k
    /\ LoggedWith("Failed to process") \cup LoggedWith("Successfully processed")
         \subseteq {run.started[k] : k \in 1..Len(run.started)}

\* C8 witness: get_data.py with a cap of 1 has started a second sequence
\* after the first one failed.
C8_Witness ==
  /\ variant = "get_data"
  /\ ~max_download.is_none /\ max_download.value = 1
  /\ LoggedWith("Failed to process") = {1}
  /\ Len(run.started) = 2

\* C9: once the registry is loaded and the cap accepted, the run ends only
\* after every sequence within the cap was handed to process_sequence, and
\* download_convert.py then has written the metadata file and run the
\* manifest conversion (unless writing the metadata file itself failed).
C9_RunNeverAborts ==
  (pc = "exit" /\ run.exit_reason \notin {"registry", "cap"}) =>
    /\ variant = "download_convert" =>
         /\ Len(run.started) = CapLimit
         /\ run.exit_reason # "csv" => run.csv_written /\ run.converted
    /\ variant = "get_data" =>
         \/ Len(run.started) = NumSeqs
         \/ Cardinality(LoggedWith("Successfully processed")) >= max_download.value

\* C10 (as claimed): the exit code is non-zero exactly when the registry file
\* cannot be loaded or the cap is non-positive.
C10_ExitCodeAsClaimed ==
  pc = "exit" =>
    (run.exit_code # 0 <=>
       (~registry_ok \/ (~max_download.is_none /\ max_download.value <= 0)))

\* C10 (amended): download_convert.py exits with a non-zero code exactly when
\* the registry cannot be loaded, the cap is non-positive or the metadata CSV
\* cannot be written; get_data.py exactly when the registry cannot be loaded
\* or a sequence it started has no video_main_rgb key (the KeyError is caught
\* nowhere). Sequences that fail by return value, and a manifest JSON that
\* cannot be written, leave the exit code 0.
C10_ExitCode ==
  pc = "exit" =>
    /\ run.exit_code \in {0, 1}
    /\ variant = "download_convert" =>
         (run.exit_code # 0 <=>
            \/ ~registry_ok
            \/ (~max_download.is_none /\ max_download.value <= 0)
            \/ ~run.csv_written)
    /\ variant = "get_data" =>
         (run.exit_code # 0 <=>
            \/ ~registry_ok
            \/ \E k \in 1..Len(run.started) :
                 ~registry[run.started[k]].video_main_rgb.present)

\* C10 witness: download_convert.py, registry loaded and cap accepted, a
\* sequence failed, the metadata CSV could not be written: exit code 1.
C10_Witness ==
  /\ pc = "exit"
  /\ variant = "download_convert"
  /\ registry_ok
  /\ ~(~max_download.is_none /\ max_download.value <= 0)
  /\ LoggedWith("Failed to process") # {}
  /\ run.exit_reason = "csv"
  /\ run.exit_code = 1

\* C11: when process_sequence returns True for a sequence whose registry
\* entry has no ground-truth descriptor, the label it computed (and, in
\* download_convert.py, recorded in metadata_list) is the activity label
\* parse_activity_label gives for the sequence id.
C11_NoGroundtruthBareLabel ==
  (pc = "ps_return" /\ ps.result = "True"
     /\ ~registry[ps.id].main_groundtruth.present) =>
    /\ ps.label = parse_activity_label(SequenceName(ps.id)).value
    /\ variant = "download_convert" =>
         metadata_list[Len(metadata_list)].activity_label
           = parse_activity_label(SequenceName(ps.id)).value

\* ---------------------------------------------------------------- label functions (SpecLabel)
Parsed == call.fn = "parse_activity_label"

\* The position of the first `release` token of the id parsed, 0 without one.
ReleaseAt ==
  IF \E i \in 1..Len(call.parts) : call.parts[i] = "release"
  THEN CHOOSE i \in 1..Len(call.parts) :
         /\ call.parts[i] = "release"
         /\ \A j \in 1..(i - 1) : call.parts[j] # "release"
  ELSE 0

\* The token at position ReleaseAt + 1 is one of the three to skip.
SkipFollows ==
  /\ ReleaseAt + 1 <= Len(call.parts)
  /\ Lower(call.parts[ReleaseAt + 1]) \in {"skeleton", "multiskeleton", "multiuser"}

\* C12: for a sequence id with a `release` token, parse_activity_label
\* returns the capitalized token right after (the first) `release`, or, when
\* that token is skeleton, multiskeleton or multiuser in any letter case, the
\* capitalized token one further on, whatever that token is.
C12_TokenAfterRelease ==
  (Parsed /\ ReleaseAt > 0) =>
    /\ (ReleaseAt + 1 <= Len(call.parts) /\ ~SkipFollows) =>
         /\ call.result.raised = NoException
         /\ call.result.value = Capitalize(call.parts[ReleaseAt + 1])
    /\ (SkipFollows /\ ReleaseAt + 2 <= Len(call.parts)) =>
         /\ call.result.raised = NoException
         /\ call.result.value = Capitalize(call.parts[ReleaseAt + 2])

\* C12 witness: "..._release_multiuser_COOK" gave "Cook"; the skipped token
\* is the one right after `release`.
C12_Witness ==
  /\ Parsed
  /\ ReleaseAt > 0
  /\ ReleaseAt + 2 <= Len(call.parts)
  /\ call.parts[ReleaseAt + 1] = "multiuser"
  /\ call.parts[ReleaseAt + 2] = "COOK"
  /\ call.result.value = "Cook"

\* C13: parse_activity_label never raises; for an id without a `release`
\* token, and for an id that ends before the token it needs (one past
\* `release`, two past it after a token to skip), it returns "Unknown".
C13_UnknownNeverRaises ==
  Parsed =>
    /\ call.result.raised = NoException
    /\ ReleaseAt = 0 => call.result.value = "Unknown"
    /\ (ReleaseAt > 0 /\ ReleaseAt + 1 > Len(call.parts)) =>
         call.result.value = "Unknown"
    /\ (SkipFollows /\ ReleaseAt + 2 > Len(call.parts)) =>
         call.result.value = "Unknown"

\* C13 witness: an id ending in "release_skeleton" gave "Unknown".
C13_Witness ==
  /\ Parsed
  /\ ReleaseAt > 0
  /\ SkipFollows
  /\ ReleaseAt + 2 > Len(call.parts)
  /\ call.result = [raised |-> NoException, value |-> "Unknown"]

Generated == call.fn = "generate_composite_label"

\* The dynamic instances of the file read, in the file's order.
DynamicInstances ==
  SelectSeq(call.instances_file.instances, LAMBDA info : info.motion_type = "dynamic")

\* names[1], names[2], ..., names[k] separated by ", ".
RECURSIVE Listed(_, _)
Listed(names, k) ==
  IF k = 1 THEN names[1].instance_name
  ELSE Listed(names, k - 1) \o ", " \o names[k].instance_name

Converted == call.fn = "convert_metadata_to_llava_json"

\* A file with one of the extensions .png, .jpg, .jpeg in any letter case.
IsImage(file) == file.ext \in {".png", ".jpg", ".jpeg", ".PNG", ".JPG", ".JPEG"}

\* The image files in the frames directory of a row (none without directory).
ImagesOf(row) ==
  IF call.disk[row.frames_path].exists
  THEN {f \in call.disk[row.frames_path].files : IsImage(f)}
  ELSE {}

\* The positions in the manifest of the entries made for a row: those whose
\* id starts with the row's sequence id.
EntriesOf(row) ==
  {i \in 1..Len(call.result.manifest) :
     IsPrefix(SequenceName(row.sequence_id), call.result.manifest[i].id)}

\* C15: in a manifest that was written, every record whose frames directory
\* holds k image files has exactly k entries, and no two entries of the
\* manifest have the same id.
C15_EntriesPerRecord ==
  (Converted /\ call.result.written) =>
    /\ \A k \in 1..Len(call.rows) :
         Cardinality(EntriesOf(call.rows[k])) = Cardinality(ImagesOf(call.rows[k]))
    /\ \A i, j \in 1..Len(call.result.manifest) :
         i # j => call.result.manifest[i].id # call.result.manifest[j].id

\* C16: a record whose frames directory does not exist or holds no image
\* file has no entry in the manifest, every other record has one entry for
\* each of its image files, and the manifest is written whenever the output
\* file can be written.
C16_SkippedRecordsOnly ==
  Converted =>
    /\ call.result.written = call.json_ok
    /\ call.result.written =>
         \A k \in 1..Len(call.rows) :
           IF ImagesOf(call.rows[k]) = {}
           THEN EntriesOf(call.rows[k]) = {}
           ELSE {call.result.manifest[i].image[2] : i \in EntriesOf(call.rows[k])}
                  = ImagesOf(call.rows[k])

\* C16 witness: the first of two records names a directory that does not
\* exist, the second has frames; the manifest holds the second's only.
C16_Witness ==
  /\ Converted
  /\ call.result.written
  /\ Len(call.rows) = 2
  /\ ~call.disk[call.rows[1].frames_path].exists
  /\ ImagesOf(call.rows[2]) # {}
  /\ EntriesOf(call.rows[1]) = {}
  /\ EntriesOf(call.rows[2]) = 1..Len(call.result.manifest)
  /\ Len(call.result.manifest) > 0

\* ---------------------------------------------------------------- steps and outputs of a run (Spec)
\* C17: extract_frames never returns True leaving no frame image of the
\* sequence, in either script, and process_sequence never returns True for a
\* sequence of which no frame image exists.
C17_SuccessNeedsFrames ==
  InInvocation =>
    /\ ps.frames = "ok" => fs[ps.id].frames
    /\ (pc = "ps_return" /\ ps.result = "True") => fs[ps.id].frames

\* The place in the metadata file of the record a manifest entry was made for.
RowOf(entry) ==
  CHOOSE k \in 1..Len(run.csv) :
    IsPrefix(SequenceName(run.csv[k].sequence_id), entry.id)

\* The place of a file name among all file names in ascending order.
PlaceOf(file) == CHOOSE k \in 1..Len(FilesInOrder) : FilesInOrder[k] = file

\* C18: the records in the metadata file are the successfully processed
\* sequences and no others, in registry order, all among the first
\* max_download registry entries; the manifest entries are grouped by record
\* in the order of the records, and within a record are in ascending order of
\* file name.
C18_OutputOrder ==
  /\ run.csv_written =>
       /\ {run.csv[k].sequence_id : k \in 1..Len(run.csv)}
            = LoggedWith("Successfully processed")
       /\ \A j, k \in 1..Len(run.csv) :
            j < k => run.csv[j].sequence_id < run.csv[k].sequence_id
       /\ \A k \in 1..Len(run.csv) : run.csv[k].sequence_id <= CapLimit
  /\ run.manifest_written =>
       \A i, j \in 1..Len(run.manifest) :
         i < j =>
           \/ RowOf(run.manifest[i]) < RowOf(run.manifest[j])
           \/ /\ RowOf(run.manifest[i]) = RowOf(run.manifest[j])
              /\ PlaceOf(run.manifest[i].image[2]) < PlaceOf(run.manifest[j].image[2])

\* C18 witness: the first sequence failed leaving frames behind, the second
\* succeeded; the metadata file holds the second only, and the manifest its
\* entries for the frames of both sequences.
C18_Witness ==
  /\ pc = "exit"
  /\ run.manifest_written
  /\ LoggedWith("Failed to process") = {1}
  /\ Len(run.csv) = 1
  /\ run.csv[1].sequence_id = 2
  /\ fs[1].frames
  /\ Len(run.manifest) = 2 * FramesPerVideo

\* C19: within one invocation of process_sequence, frame extraction is
\* called only after the video step, with the video file in place;
\* extract_zip only after the ground-truth download step, with the archive in
\* place; no ground-truth step before the frame step is over; and once a step
\* has failed no later step is taken, no label is computed and the
\* invocation returns False.
C19_StepOrder ==
  InInvocation =>
    /\ ps.frames \in Called => (ps.video \in Done /\ fs[ps.id].video # Absent)
    /\ ps.zip \in Called => (ps.gt \in Done /\ fs[ps.id].gt # Absent)
    /\ ps.frames # "none" => ps.video \in Done
    /\ ps.gt # "none" => (ps.video # "failed" /\ ps.frames # "failed")
    /\ ps.gt # "none" => (ps.video \in Done => ps.frames \in Done)
    /\ ps.zip # "none" => ps.gt \in Done
    /\ ps.video = "failed" => (ps.frames = "none" /\ ps.gt = "none" /\ ps.zip = "none")
    /\ ps.frames = "failed" => (ps.gt = "none" /\ ps.zip = "none")
    /\ ps.gt = "failed" => ps.zip = "none"
    /\ "failed" \in {ps.video, ps.frames, ps.gt, ps.zip} =>
         (pc = "ps_return" /\ ps.result = "False" /\ ps.label = None)
    /\ ps.label # None =>
         (pc = "ps_return" /\ "failed" \notin {ps.video, ps.frames, ps.gt, ps.zip})

\* C19 witness: video and frames done, the ground-truth download failed, and
\* the invocation returned False without unpacking or labelling.
C19_Witness ==
  /\ pc = "ps_return"
  /\ ps.video = "ok" /\ ps.frames = "ok"
  /\ ps.gt = "failed"
  /\ ps.zip = "none"
  /\ ps.label = None
  /\ ps.result = "False"

\* ---------------------------------------------------------------- repeated runs (SpecSeq)
\* C20: in any invocation of process_sequence, over a dataset directory
\* earlier invocations worked on, a download that is skipped because the
\* file exists, for an asset with a checksum in the registry, finds a file
\* with that checksum.
C20_SkippedFileVerified ==
  /\ (ps.video = "exists" /\ Truthy(registry[ps.id].video_main_rgb.sha1sum)) =>
       Sha1(fs[ps.id].video) = registry[ps.id].video_main_rgb.sha1sum
  /\ (ps.gt = "exists" /\ Truthy(registry[ps.id].main_groundtruth.sha1sum)) =>
       Sha1(fs[ps.id].gt) = registry[ps.id].main_groundtruth.sha1sum

\* ---------------------------------------------------------------- frames and labels of a run (Spec)
\* The positions in the manifest of the entries that show the given file.
EntriesShowing(file) ==
  {i \in 1..Len(run.manifest) : run.manifest[i].image[2] = file}

\* C21: when download_convert.py ends with two or more sequences processed
\* successfully and the manifest written, every frame image of each of those
\* sequences is shown by exactly one manifest entry, and that entry's label
\* is the label recorded for the sequence the frame was extracted from.
C21_FrameOnceWithOwnLabel ==
  (pc = "exit" /\ variant = "download_convert" /\ run.manifest_written
     /\ Len(run.csv) >= 2) =>
    \A k \in 1..Len(run.csv) : \A file \in FramesOf(run.csv[k].sequence_id) :
      /\ Cardinality(EntriesShowing(file)) = 1
      /\ \A i \in EntriesShowing(file) :
           run.manifest[i].value = run.csv[k].activity_label

====
